---- MODULE Spec2Model ----
(***************************************************************************)
(* Model of the loaner checkout / check-in server (src/src/server.py) and  *)
(* of the asset library it calls (src/src/asset_lib.py).                   *)
(*                                                                         *)
(* Strings that the code inspects character by character (uniqnames and    *)
(* asset tags) are sequences of one-character strings.  The TeamDynamix    *)
(* client (tdxapi) is outside the repository: each tdx.* call is a read or *)
(* a write of the remote records `assets` / `tickets` / Persons, and the   *)
(* Python type of what it returns (awaitable or not) is not modelled.      *)
(* Calls between the repository's own files are modelled as Python binds   *)
(* them (see BindsCall).                                                   *)
(***************************************************************************)
EXTENDS Integers, Sequences, FiniteSets, TLC

VARIABLES assets, tickets, run

vars == <<assets, tickets, run>>

-----------------------------------------------------------------------------
(* Bounds of the model *)

\* number of requests that may be in flight at the same time
NumReqs == 1
\* longest run of letters of a generated uniqname
MaxNameLen == 9
\* longest run of digits of a generated asset tag
MaxDigits == 6
\* most entries of a generated attribute list
MaxAttrs == 3
\* most assets the library's client attaches to one ticket
MaxAttached == 2

Reqs == 1..NumReqs

-----------------------------------------------------------------------------
(* Characters and strings *)

LowerSeq == <<"a","b","c","d","e","f","g","h","i","j","k","l","m",
              "n","o","p","q","r","s","t","u","v","w","x","y","z">>
UpperSeq == <<"A","B","C","D","E","F","G","H","I","J","K","L","M",
              "N","O","P","Q","R","S","T","U","V","W","X","Y","Z">>
DigitSeq == <<"0","1","2","3","4","5","6","7","8","9">>

Range(s) == {s[i] : i \in DOMAIN s}

LowerChars == Range(LowerSeq)
DigitChars == Range(DigitSeq)
Newline == "\n"

\* str.lower() on one character
LowerChar(c) ==
    IF \E i \in DOMAIN UpperSeq : UpperSeq[i] = c
    THEN LowerSeq[CHOOSE i \in DOMAIN UpperSeq : UpperSeq[i] = c]
    ELSE c

\* str.lower()
Lower(s) == [i \in DOMAIN s |-> LowerChar(s[i])]

\* s[from..from+Len(p)-1] = p
HasAt(s, p, from) ==
    /\ from + Len(p) - 1 <= Len(s)
    /\ \A i \in 1..Len(p) : s[from + i - 1] = p[i]

\* s.startswith(p)
StartsWith(s, p) == HasAt(s, p, 1)

\* Python's `p in s` on strings
Contains(s, p) == \E from \in 1..(Len(s) + 1) : HasAt(s, p, from)

\* the n characters of s from position from are all in the class cls
AllIn(s, from, n, cls) ==
    /\ from + n - 1 <= Len(s)
    /\ \A i \in from..(from + n - 1) : s[i] \in cls

-----------------------------------------------------------------------------
(* The two patterns, as re.Pattern.match applies them *)

\* re.compile("^[a-z]{3,8}$").match(s): 3 to 8 characters a-z from the start,
\* then the end of the string, which `$` also finds before one final newline.
uniqname_pattern(s) ==
    \E n \in 3..8 :
        /\ AllIn(s, 1, n, LowerChars)
        /\ \/ Len(s) = n
           \/ Len(s) = n + 1 /\ s[n + 1] = Newline

\* re.compile("^((TRL|SAH)[0-9]{5})|SAHM[0-9]{4}").match(s): match() tries
\* position 0 only; neither alternative is followed by `$`.
asset_pattern(s) ==
    \/ /\ StartsWith(s, <<"T","R","L">>) \/ StartsWith(s, <<"S","A","H">>)
       /\ AllIn(s, 4, 5, DigitChars)
    \/ /\ StartsWith(s, <<"S","A","H","M">>)
       /\ AllIn(s, 5, 4, DigitChars)

-----------------------------------------------------------------------------
(* Names and ids of the remote service *)

\* tdx.get_id(...): the id the remote catalogue gives a status or location name
get_id(name) == <<"id", name>>

\* tdx.no_owner_uid
no_owner_uid == "uid:none"

\* date.today().strftime("%m/%d/%Y"), and an earlier date
Today == <<"today">>
Earlier == <<"earlier">>

\* Values of the ticket attribute "sah_Request Status" that checkout names
DeniedValue == 43075
ApprovedMacValue == 43072
ApprovedWindowsValue == 43071

\* The choices of "sah_Request Status".  The ValueText of the two approved
\* choices is the text checkout compares it with.
Approvals ==
    { [Value |-> DeniedValue, ValueText |-> "Denied"],
      [Value |-> ApprovedMacValue, ValueText |-> "Mac"],
      [Value |-> ApprovedWindowsValue, ValueText |-> "Windows"],
      [Value |-> ApprovedWindowsValue - 1, ValueText |-> "Pending"] }

-----------------------------------------------------------------------------
(* Records of the remote service *)

\* uid1 and uid2 have a uniqname of their own, uid3 too (the one with two
\* request tickets where the tickets say so), uid4 and uid5 share one
Persons ==
    { [UID |-> "uid1", AlternateID |-> <<"a","b","c","d","e">>],
      [UID |-> "uid2", AlternateID |-> <<"x","y","z">>],
      [UID |-> "uid3", AlternateID |-> <<"t","w","o">>],
      [UID |-> "uid4", AlternateID |-> <<"d","u","p">>],
      [UID |-> "uid5", AlternateID |-> <<"d","u","p">>] }

NoPerson == [UID |-> "-", AlternateID |-> <<>>]

AssetIDs == {"d1", "d2", "d3"}

\* Tags as the inventory labels them: TRL or SAH then 5 digits, or SAHM then
\* 4 digits.  d5 and d6 are two records with one tag.
TagOf(id) ==
    CASE id = "d1" -> <<"S","A","H","0","1","2","3","4">>
      [] id = "d2" -> <<"S","A","H","1","2","3","4","5">>
      [] id = "d3" -> <<"S","A","H","M","1","2","3","4">>
      [] id = "d4" -> <<"S","A","H","0","5","6","7","8">>
      [] id \in {"d5", "d6"} -> <<"T","R","L","0","0","0","0","1">>

\* A Python value that is a str.  A field that the code may fill with a str
\* or with a whole record (a dict) holds PyStr(s) or the record.
PyStr(s) == [str |-> s]

NoAsset ==
    [ID |-> "-", Tag |-> <<>>, LocationID |-> <<>>, StatusID |-> <<>>,
     OwningCustomerID |-> PyStr("-"), Attributes |-> <<>>]

TicketIDs == {"t1"}

NoTicket ==
    [ID |-> "-", RequestorUID |-> "-", RequestorName |-> "-",
     Status |-> "-", Approval |-> [Value |-> 0, ValueText |-> "-"],
     LoanTerm |-> "-", LoanDate |-> "-", Assets |-> <<>>]

\* An entry of asset["Attributes"] as the remote service gives it
Attribute(name, value) == [Name |-> name, ID |-> get_id(name), Value |-> value]

\* The "Name" of an entry that has no key "Name"
NoName == "-"

\* An asset record of the inventory
AssetRecord(id, status_name, owner_uid) ==
    [ID |-> id, Tag |-> TagOf(id),
     LocationID |-> get_id(IF status_name = "On Loan" THEN "Offsite"
                                                       ELSE "MICHIGAN UNION"),
     StatusID |-> get_id(status_name),
     OwningCustomerID |-> PyStr(owner_uid),
     Attributes |-> << Attribute("Notes", <<"old notes">>),
                       Attribute("Last Inventoried", Earlier) >>]

\* A Sites @ Home request ticket of person uid1
RequestTicket(id, approval, attached) ==
    [ID |-> id, RequestorUID |-> "uid1", RequestorName |-> "Abc De",
     Status |-> IF attached = <<>> THEN "Open" ELSE "Closed",
     Approval |-> approval,
     LoanTerm |-> "Fall", LoanDate |-> "09/01",
     Assets |-> attached]

-----------------------------------------------------------------------------
(* A request in flight: the locals of one run of a handler *)

NoOutcome ==
    [kind |-> "none", ticket |-> "-", tag |-> <<>>, asset_id |-> "-",
     uniqname |-> <<>>, uid |-> PyStr("-"), approved_type |-> "-"]

Outcome(kind) == [NoOutcome EXCEPT !.kind = kind]

\* request.json: the keys "uniqname" and "asset", and the key "ticket" by
\* which a return may name its drop-off ticket ("-" when it has none)
NoBody == [kind |-> "none", uniqname |-> <<>>, asset |-> <<>>, ticket |-> "-"]

NoTask == [st |-> "none", exc |-> "-", person |-> NoPerson, id |-> "-",
           asset |-> NoAsset]

IdleRun ==
    [op |-> "none", body |-> NoBody, hpc |-> "idle",
     owner_task |-> NoTask, asset_task |-> NoTask,
     uniqname |-> <<>>, available_id |-> <<>>,
     owner |-> NoPerson, ticket |-> NoTicket, ticket_assets |-> <<>>,
     asset |-> NoAsset, person |-> NoPerson,
     out |-> NoOutcome, calls |-> <<>>, first_failed |-> "none"]

\* The run r ends with outcome o
Finish(r, o) == [run[r] EXCEPT !.hpc = "done", !.out = o]

\* No run has called exit().  SystemExit is not an Exception: no error
\* handler takes it, it leaves the event loop and the process ends.
Serving == \A q \in DOMAIN run : run[q].out.kind # "SystemExit"

-----------------------------------------------------------------------------
(* Initial state and request bodies *)

\* The ticket of uid1 carries any approval and has no asset or asset d3
\* attached; d1 and d2 are both in stock or both on loan to uid2; d3 is on
\* loan to uid1 when attached to the ticket, else as d1 and d2.
InitRemote(approval, attached, status_name) ==
    /\ tickets = [t \in TicketIDs |-> RequestTicket(t, approval, attached)]
    /\ assets =
         [d \in AssetIDs |->
            IF d = "d3" /\ attached # <<>>
            THEN AssetRecord(d, "On Loan", "uid1")
            ELSE AssetRecord(d, status_name,
                             IF status_name = "On Loan" THEN "uid2"
                                                        ELSE no_owner_uid)]

Init ==
    /\ \E approval \in Approvals, attached \in {<<>>, <<"d3">>},
          status_name \in {"In Stock - Available", "On Loan"} :
          InitRemote(approval, attached, status_name)
    /\ run = [r \in Reqs |-> IdleRun]

\* uniqnames of the requests: uid1's, the same in capitals, uid2's (who has no
\* ticket), nobody's, and one that is too short
ReqNames ==
    { <<"a","b","c","d","e">>, <<"A","B","C","D","E">>, <<"x","y","z">>,
      <<"n","o","n","e">>, <<"a","b">> }

\* tags of the requests: the three assets, a tag of no asset, a tag that is
\* too short
ReqTags ==
    { TagOf("d1"), TagOf("d2"), TagOf("d3"),
      <<"S","A","H","9","9","9","9","9">>, <<"S","A","H","1","2","3","4">> }

\* request.json of a checkout: nothing, a body without "uniqname", a body
\* without "asset", or both (a name in capitals with the tag of d1 only)
CheckoutBodies ==
    { NoBody,
      [NoBody EXCEPT !.kind = "no_uniqname", !.asset = TagOf("d1")],
      [NoBody EXCEPT !.kind = "no_asset",
                     !.uniqname = <<"a","b","c","d","e">>] }
    \cup { [NoBody EXCEPT !.kind = "full", !.uniqname = n, !.asset = t] :
             n \in {m \in ReqNames : Lower(m) = m}, t \in ReqTags }
    \cup { [NoBody EXCEPT !.kind = "full", !.uniqname = n,
                          !.asset = TagOf("d1")] : n \in ReqNames }

\* request.json of a return: nothing, a body without "asset", an asset, or
\* an asset with a drop-off ticket (a key the handler never reads)
DropoffBodies ==
    { NoBody, [NoBody EXCEPT !.kind = "no_asset"] }
    \cup { [NoBody EXCEPT !.kind = "no_uniqname", !.asset = t] : t \in ReqTags }
    \cup { [NoBody EXCEPT !.kind = "no_uniqname", !.asset = TagOf("d2"),
                          !.ticket = k] : k \in TicketIDs }

\* A request arrives and its handler is entered
Receive(r) ==
    /\ Serving
    /\ run[r].hpc = "idle"
    /\ \E op \in {"checkout", "dropoff"} :
         \E body \in IF op = "checkout" THEN CheckoutBodies
                                        ELSE DropoffBodies :
            run' = [run EXCEPT ![r] =
                      [IdleRun EXCEPT !.op = op, !.body = body,
                                      !.hpc = "received"]]
    /\ UNCHANGED <<assets, tickets>>

\* The response (or the error handler's response) is sent
Respond(r) ==
    /\ Serving
    /\ run[r].hpc = "done"
    /\ run' = [run EXCEPT ![r] = IdleRun]
    /\ UNCHANGED <<assets, tickets>>

-----------------------------------------------------------------------------
(* The lookups *)

\* tdx.search_person({"AlternateID": uniqname}), as the task "Find Owner"
\* ends: the person, or the tdxapi exception the error handlers name
search_person(uniqname) ==
    LET found == {p \in Persons : p.AlternateID = uniqname}
    IN  IF found = {}
        THEN [NoTask EXCEPT !.st = "failed", !.exc = "PersonDoesNotExist"]
        ELSE IF Cardinality(found) > 1
        THEN [NoTask EXCEPT !.st = "failed", !.exc = "MultipleMatches"]
        ELSE [NoTask EXCEPT !.st = "done",
                            !.person = CHOOSE p \in found : TRUE]

\* tdx.search_assets(asset_tag)
search_assets(asset_tag) ==
    {d \in DOMAIN assets : assets[d].Tag = asset_tag}

\* What _multiple_matches_chooser gives when input() gives no number: int()
\* raises ValueError, a closed standard input raises EOFError
NoChoice == "-"

\* _multiple_matches_chooser(matches, key): whichever match is typed in on
\* the server's standard input, or NoChoice
multiple_matches_chooser(found) == found \cup {NoChoice}

\* find_asset up to its second await: no asset raises ObjectNotFound, one
\* asset is taken, one of several is chosen
find_asset_search(asset_tag) ==
    LET found == search_assets(asset_tag)
    IN  IF found = {}
        THEN {[NoTask EXCEPT !.st = "failed", !.exc = "ObjectNotFound"]}
        ELSE IF Cardinality(found) > 1
        THEN {IF d = NoChoice
              THEN [NoTask EXCEPT !.st = "failed", !.exc = "InputError"]
              ELSE [NoTask EXCEPT !.st = "get", !.id = d] :
                d \in multiple_matches_chooser(found)}
        ELSE {[NoTask EXCEPT !.st = "get", !.id = d] : d \in found}

\* Which of the two tasks of the run r was the first to end with an
\* exception, when the task `task` ends as `result`
FirstFailed(r, task, result) ==
    IF result.st = "failed" /\ run[r].first_failed = "none"
    THEN task ELSE run[r].first_failed

\* The task "Find Owner" runs
OwnerTask(r) ==
    /\ Serving
    /\ run[r].owner_task.st = "running"
    /\ LET result == search_person(run[r].uniqname)
       IN  run' = [run EXCEPT
                     ![r].owner_task = result,
                     ![r].first_failed = FirstFailed(r, "owner", result)]
    /\ UNCHANGED <<assets, tickets>>

\* The task "Find Asset" runs to the result of tdx.search_assets
AssetTaskSearch(r) ==
    /\ Serving
    /\ run[r].asset_task.st = "search"
    /\ \E t \in find_asset_search(run[r].body.asset) :
          run' = [run EXCEPT
                    ![r].asset_task = t,
                    ![r].first_failed = FirstFailed(r, "asset", t)]
    /\ UNCHANGED <<assets, tickets>>

\* The task "Find Asset" runs to the result of tdx.get_asset
AssetTaskGet(r) ==
    /\ Serving
    /\ run[r].asset_task.st = "get"
    /\ run' = [run EXCEPT ![r].asset_task =
                 [@ EXCEPT !.st = "done",
                           !.asset = assets[run[r].asset_task.id]]]
    /\ UNCHANGED <<assets, tickets>>

-----------------------------------------------------------------------------
(* Python semantics the handlers rest on *)

\* `a is b` on two values that reached the handler by different ways: unequal
\* values are never the same object; whether equal values are the same object
\* depends on the interpreter's caching of the value.
is_same(a, b) == IF a = b THEN {TRUE, FALSE} ELSE {FALSE}

\* Whether Python binds a call of npos positional and kws keyword arguments
\* to a function with the parameters params, of which the first nreq have no
\* default; else the call raises TypeError before the function runs.
BindsCall(params, nreq, npos, kws) ==
    /\ npos <= Len(params)
    /\ \A k \in kws : \E i \in (npos + 1)..Len(params) : params[i] = k
    /\ \A i \in (npos + 1)..nreq : params[i] \in kws

\* A sequence of `if cond: exc` statements, each [cond, raise, out]: the
\* outcome of the first whose condition holds and that is a raise statement,
\* else NoOutcome.  A statement that only builds the exception raises nothing.
RECURSIVE FirstRaised(_)
FirstRaised(stmts) ==
    IF stmts = <<>> THEN NoOutcome
    ELSE IF Head(stmts).cond /\ Head(stmts).raise THEN Head(stmts).out
    ELSE FirstRaised(Tail(stmts))

-----------------------------------------------------------------------------
(* asset_lib: the mutations *)

\* The record one remote mutating call leaves in the log of its run
Call(name, ticket_id, asset_id) ==
    [call |-> name, ticket |-> ticket_id, asset |-> asset_id]

\* inventory_asset with the entry "Notes" appended whether or not the asset
\* has one
inventory_asset_appends(asset, location_name, status_name, owner_uid, notes, update_inv_date) ==
    [asset EXCEPT
        !.LocationID = get_id(location_name),
        !.StatusID = get_id(status_name),
        !.OwningCustomerID =
            IF owner_uid = PyStr("") THEN PyStr(no_owner_uid) ELSE owner_uid,
        !.Attributes =
            Append(asset.Attributes,
                   [Attribute("Notes", notes) EXCEPT !.Name = NoName])]

\* inventory_asset: the asset dict as it is sent by tdx.update_asset.  An
\* appended entry has the keys "ID" and "Value" only.
inventory_asset(asset, location_name, status_name, owner_uid, notes, update_inv_date) ==
    LET existing_attributes ==
            {asset.Attributes[i].Name : i \in DOMAIN asset.Attributes}
        updated ==
            [i \in DOMAIN asset.Attributes |->
                LET attr == asset.Attributes[i]
                IN  IF attr.Name = "Notes"
                    THEN [attr EXCEPT !.Value = notes]
                    ELSE IF attr.Name = "Last Inventoried"
                    THEN [attr EXCEPT !.Value = Today]
                    ELSE attr]
        with_date ==
            IF "Last Inventoried" \notin existing_attributes /\ update_inv_date
            THEN Append(updated,
                        [Attribute("Last Inventoried", Today) EXCEPT
                            !.Name = NoName])
            ELSE updated
        with_notes ==
            IF "Notes" \notin existing_attributes /\ notes # <<>>
            THEN Append(with_date,
                        [Attribute("Notes", notes) EXCEPT !.Name = NoName])
            ELSE with_date
    IN  [asset EXCEPT
            !.LocationID = get_id(location_name),
            !.StatusID = get_id(status_name),
            !.OwningCustomerID =
                IF owner_uid = PyStr("") THEN PyStr(no_owner_uid)
                                         ELSE owner_uid,
            !.Attributes = with_notes]

\* tdx.update_asset(asset): the record the remote service keeps.  It knows an
\* attribute by its ID and gives it back under the name of that ID.
update_asset(asset) ==
    [asset EXCEPT !.Attributes =
        [i \in DOMAIN asset.Attributes |->
            [asset.Attributes[i] EXCEPT !.Name = asset.Attributes[i].ID[2]]]]

\* tdx.attach_asset_to_ticket then tdx.update_ticket_status(.., "Closed", ..)
attach_and_close(tks, ticket_id, asset_id) ==
    [tks EXCEPT ![ticket_id] =
        [@ EXCEPT !.Assets = Append(@, asset_id), !.Status = "Closed"]]

\* check_out_asset_params with the parameter that checkout's call supposes
check_out_asset_params_with_comment ==
    <<"tdx", "asset", "ticket", "person_uid", "comment">>

\* The parameters of check_out_asset, all required
check_out_asset_params == <<"tdx", "asset", "ticket", "person_uid">>

\* check_out_asset(tdx, asset, ticket, person_uid): the tickets, the asset
\* dict and the calls after it
check_out_asset(asset, ticket, person_uid) ==
    LET sent == inventory_asset(asset, "Offsite", "On Loan", person_uid,
                                <<"On Loan until", ticket.LoanTerm>>, FALSE)
    IN  [tickets |-> attach_and_close(tickets, ticket.ID, asset.ID),
         asset |-> sent,
         calls |-> << Call("attach_asset_to_ticket", ticket.ID, asset.ID),
                      Call("update_ticket_status", ticket.ID, "-"),
                      Call("update_asset", "-", asset.ID) >>]

\* check_in_asset with the asset put back in the available status
check_in_asset_available(asset, ticket) ==
    LET sent == inventory_asset(asset, "MICHIGAN UNION", "In Stock - Available",
                                PyStr(""),
                                <<"Checked in by Tech Consulting">>, FALSE)
    IN  [tickets |-> IF ticket = NoTicket THEN tickets
                     ELSE attach_and_close(tickets, ticket.ID, asset.ID),
         asset |-> sent,
         calls |-> (IF ticket = NoTicket THEN <<>>
                    ELSE << Call("attach_asset_to_ticket", ticket.ID, asset.ID),
                            Call("update_ticket_status", ticket.ID, "-") >>)
                   \o << Call("update_asset", "-", asset.ID) >>]

\* check_in_asset with the asset updated before the ticket calls
check_in_asset_update_first(asset, ticket) ==
    LET sent == inventory_asset(asset, "MICHIGAN UNION", "In Stock - Reserved",
                                PyStr(""),
                                <<"Checked in by Tech Consulting">>, FALSE)
    IN  [tickets |-> IF ticket = NoTicket THEN tickets
                     ELSE attach_and_close(tickets, ticket.ID, asset.ID),
         asset |-> sent,
         calls |-> << Call("update_asset", "-", asset.ID) >>
                   \o (IF ticket = NoTicket THEN <<>>
                       ELSE << Call("attach_asset_to_ticket", ticket.ID,
                                    asset.ID),
                               Call("update_ticket_status", ticket.ID, "-") >>)]

\* The parameters of check_in_asset; ticket has a default
check_in_asset_params == <<"tdx", "asset", "ticket">>

\* check_in_asset(tdx, asset, ticket=None): as check_out_asset; ticket is
\* NoTicket for None
check_in_asset(asset, ticket) ==
    LET sent == inventory_asset(asset, "MICHIGAN UNION", "In Stock - Reserved",
                                PyStr(""),
                                <<"Checked in by Tech Consulting">>, FALSE)
    IN  [tickets |-> IF ticket = NoTicket THEN tickets
                     ELSE attach_and_close(tickets, ticket.ID, asset.ID),
         asset |-> sent,
         calls |-> (IF ticket = NoTicket THEN <<>>
                    ELSE << Call("attach_asset_to_ticket", ticket.ID, asset.ID),
                            Call("update_ticket_status", ticket.ID, "-") >>)
                   \o << Call("update_asset", "-", asset.ID) >>]

-----------------------------------------------------------------------------
(* checkout *)

\* checkout up to its first task: the body and the two patterns.  NoOutcome
\* when the request is accepted.
validate_checkout(body) ==
    LET uniqname == Lower(body.uniqname)
    IN  IF body.kind = "none" THEN Outcome("MissingBody")
        ELSE IF body.kind = "no_uniqname" THEN Outcome("MalformedBody")
        ELSE IF body.kind = "no_asset" THEN Outcome("MalformedBody")
        ELSE IF ~uniqname_pattern(uniqname)
        THEN [Outcome("InvalidUniqname") EXCEPT !.uniqname = uniqname]
        ELSE IF ~asset_pattern(body.asset)
        THEN [Outcome("InvalidAsset") EXCEPT !.tag = body.asset]
        ELSE NoOutcome

\* CheckoutBegin with the task "Find Asset" not created before the owner is
\* awaited
CheckoutBegin_owner_only(r) ==
    /\ Serving
    /\ run[r].hpc = "received"
    /\ run[r].op = "checkout"
    /\ LET invalid == validate_checkout(run[r].body)
       IN  run' = [run EXCEPT ![r] =
                IF invalid # NoOutcome THEN Finish(r, invalid)
                ELSE [@ EXCEPT
                        !.uniqname = Lower(run[r].body.uniqname),
                        !.owner_task = [NoTask EXCEPT !.st = "running"],
                        !.available_id = get_id("In Stock - Available"),
                        !.hpc = "await_owner"]]
    /\ UNCHANGED <<assets, tickets>>

\* CheckoutBegin with the two tasks created before the body is validated
CheckoutBegin_tasks_first(r) ==
    /\ Serving
    /\ run[r].hpc = "received"
    /\ run[r].op = "checkout"
    /\ LET invalid == validate_checkout(run[r].body)
           started == [run[r] EXCEPT
                         !.uniqname = Lower(run[r].body.uniqname),
                         !.owner_task = [NoTask EXCEPT !.st = "running"],
                         !.asset_task = [NoTask EXCEPT !.st = "search"],
                         !.available_id = get_id("In Stock - Available")]
       IN  run' = [run EXCEPT ![r] =
                IF invalid # NoOutcome
                THEN [started EXCEPT !.hpc = "done", !.out = invalid]
                ELSE [started EXCEPT !.hpc = "await_owner"]]
    /\ UNCHANGED <<assets, tickets>>

\* The handler starts: it validates, creates the tasks "Find Owner" and
\* "Find Asset" and reads the id of the available status
CheckoutBegin(r) ==
    /\ Serving
    /\ run[r].hpc = "received"
    /\ run[r].op = "checkout"
    /\ LET invalid == validate_checkout(run[r].body)
       IN  run' = [run EXCEPT ![r] =
                IF invalid # NoOutcome THEN Finish(r, invalid)
                ELSE [@ EXCEPT
                        !.uniqname = Lower(run[r].body.uniqname),
                        !.owner_task = [NoTask EXCEPT !.st = "running"],
                        !.asset_task = [NoTask EXCEPT !.st = "search"],
                        !.available_id = get_id("In Stock - Available"),
                        !.hpc = "await_owner"]]
    /\ UNCHANGED <<assets, tickets>>

\* tdx.search_tickets(person, ["Open", "Scheduled", "Closed"], ...) of
\* find_sah_request_ticket
search_tickets(person) ==
    {t \in DOMAIN tickets :
        /\ tickets[t].RequestorUID = person.UID
        /\ tickets[t].Status \in {"Open", "Scheduled", "Closed"}}

\* find_sah_request_ticket: the ids it may return (NoChoice when the chooser
\* raises), none when it calls exit()
find_sah_request_ticket(person) ==
    LET found == search_tickets(person)
    IN  IF Cardinality(found) > 1 THEN multiple_matches_chooser(found)
        ELSE found

\* The two approval statements of checkout.  Neither has the word `raise`.
approval_statements(ticket, owner, approval_attribute) ==
    << [cond |-> approval_attribute.Value = DeniedValue,
        raise |-> FALSE,
        out |-> [Outcome("LoanRequestDenied") EXCEPT
                    !.ticket = ticket.ID, !.uniqname = owner.AlternateID]],
       [cond |-> approval_attribute.Value
                    \notin {ApprovedMacValue, ApprovedWindowsValue},
        raise |-> FALSE,
        out |-> [Outcome("NoLoanRequest") EXCEPT
                    !.uniqname = owner.AlternateID]] >>

\* CheckoutAwaitOwner with an exception of the task "Find Asset" raised
\* where the owner is awaited
CheckoutAwaitOwner_asset_first(r) ==
    /\ Serving
    /\ run[r].hpc = "await_owner"
    /\ run[r].owner_task.st \in {"done", "failed"}
    /\ run[r].asset_task.st = "failed"
    /\ run' = [run EXCEPT ![r] = Finish(r, Outcome(run[r].asset_task.exc))]
    /\ UNCHANGED <<assets, tickets>>

\* `await owner_task`, then the ticket: found, fetched again, its approval
\* status read
CheckoutAwaitOwner(r) ==
    /\ Serving
    /\ run[r].hpc = "await_owner"
    /\ run[r].owner_task.st \in {"done", "failed"}
    /\ LET owner == run[r].owner_task.person
           found == find_sah_request_ticket(owner)
       IN  IF run[r].owner_task.st = "failed"
           THEN run' = [run EXCEPT ![r] =
                          Finish(r, [Outcome(run[r].owner_task.exc) EXCEPT
                                        !.uniqname = run[r].uniqname])]
           ELSE IF found = {}
           THEN run' = [run EXCEPT ![r] =
                          [Finish(r, Outcome("SystemExit")) EXCEPT
                              !.owner = owner]]
           ELSE \E t \in found :
                  LET ticket == IF t = NoChoice THEN NoTicket ELSE tickets[t]
                      raised == FirstRaised(
                          approval_statements(ticket, owner, ticket.Approval))
                  IN  run' = [run EXCEPT ![r] =
                         IF t = NoChoice
                         THEN [Finish(r, Outcome("InputError")) EXCEPT
                                  !.owner = owner]
                         ELSE IF raised # NoOutcome
                         THEN [Finish(r, raised) EXCEPT
                                  !.owner = owner, !.ticket = ticket]
                         ELSE [@ EXCEPT !.owner = owner, !.ticket = ticket,
                                        !.hpc = "get_ticket_assets"]]
    /\ UNCHANGED <<assets, tickets>>

\* loan_fulfilled with the bound off by one
loan_fulfilled_more_than_one(ticket_assets) == Len(ticket_assets) > 1

\* len(ticket_assets) > 0
loan_fulfilled(ticket_assets) == Len(ticket_assets) > 0

\* `await tdx.get_ticket_assets(ticket["ID"])`
CheckoutTicketAssets(r) ==
    /\ Serving
    /\ run[r].hpc = "get_ticket_assets"
    /\ LET ticket_assets == tickets[run[r].ticket.ID].Assets
       IN  run' = [run EXCEPT ![r] =
                [@ EXCEPT !.ticket_assets = ticket_assets,
                          !.hpc = IF loan_fulfilled(ticket_assets)
                                  THEN "get_loaned_asset"
                                  ELSE "await_asset"]]
    /\ UNCHANGED <<assets, tickets>>

\* raise LoanAlreadyFulfilledException(ticket["ID"], already_loaned_asset["Tag"])
loan_already_fulfilled(ticket, already_loaned_asset) ==
    [Outcome("LoanAlreadyFulfilled") EXCEPT
        !.ticket = ticket.ID, !.tag = already_loaned_asset.Tag]

\* `await tdx.get_asset(ticket_assets[0]["BackingItemID"])`, then the raise
CheckoutLoanedAsset(r) ==
    /\ Serving
    /\ run[r].hpc = "get_loaned_asset"
    /\ run' = [run EXCEPT ![r] =
                 Finish(r, loan_already_fulfilled(
                              run[r].ticket, assets[run[r].ticket_assets[1]]))]
    /\ UNCHANGED <<assets, tickets>>

\* type_statements with the Mac tag tested for "SAH" in place of "SAHM"
type_statements_mac_sah(ticket, approval_attribute, asset) ==
    << [cond |-> /\ approval_attribute.ValueText = "Windows"
                 /\ ~Contains(asset.Tag, <<"S","A","H","0">>),
        raise |-> TRUE,
        out |-> [Outcome("WrongAssetType") EXCEPT
                    !.ticket = ticket.ID, !.approved_type = "Windows"]],
       [cond |-> /\ approval_attribute.ValueText = "Mac"
                 /\ ~Contains(asset.Tag, <<"S","A","H">>),
        raise |-> TRUE,
        out |-> [Outcome("WrongAssetType") EXCEPT
                    !.ticket = ticket.ID, !.approved_type = "Mac"]] >>

\* The two statements that compare the approved type with the asset's tag
type_statements(ticket, approval_attribute, asset) ==
    << [cond |-> /\ approval_attribute.ValueText = "Windows"
                 /\ ~Contains(asset.Tag, <<"S","A","H","0">>),
        raise |-> TRUE,
        out |-> [Outcome("WrongAssetType") EXCEPT
                    !.ticket = ticket.ID, !.approved_type = "Windows"]],
       [cond |-> /\ approval_attribute.ValueText = "Mac"
                 /\ ~Contains(asset.Tag, <<"S","A","H","M">>),
        raise |-> TRUE,
        out |-> [Outcome("WrongAssetType") EXCEPT
                    !.ticket = ticket.ID, !.approved_type = "Mac"]] >>

\* The response of checkout
checkout_response(asset, ticket, owner) ==
    [Outcome("OK") EXCEPT
        !.tag = asset.Tag, !.asset_id = asset.ID,
        !.uniqname = owner.AlternateID, !.uid = PyStr(owner.UID),
        !.ticket = ticket.ID]

\* `await asset_task`, the status and type guards, then the call
\* asset_lib.check_out_asset(tdx, asset, ticket, owner, body["comment"])
CheckoutAwaitAsset(r) ==
    /\ Serving
    /\ run[r].hpc = "await_asset"
    /\ run[r].op = "checkout"
    /\ run[r].asset_task.st \in {"done", "failed"}
    /\ LET asset == run[r].asset_task.asset
           ticket == run[r].ticket
           owner == run[r].owner
           wrong == FirstRaised(type_statements(ticket, ticket.Approval, asset))
           after == check_out_asset(asset, ticket, owner)
       IN  IF run[r].asset_task.st = "failed"
           THEN /\ run' = [run EXCEPT ![r] =
                             Finish(r, Outcome(run[r].asset_task.exc))]
                /\ UNCHANGED <<assets, tickets>>
           ELSE \E same \in is_same(asset.StatusID, run[r].available_id) :
                  IF ~same
                  THEN /\ run' = [run EXCEPT ![r] =
                             [Finish(r, [Outcome("AssetNotReadyToLoan") EXCEPT
                                            !.tag = asset.Tag])
                                EXCEPT !.asset = asset]]
                       /\ UNCHANGED <<assets, tickets>>
                  ELSE IF wrong # NoOutcome
                  THEN /\ run' = [run EXCEPT ![r] =
                             [Finish(r, wrong) EXCEPT !.asset = asset]]
                       /\ UNCHANGED <<assets, tickets>>
                  ELSE IF ~BindsCall(check_out_asset_params, 4, 5, {})
                  THEN /\ run' = [run EXCEPT ![r] =
                             [Finish(r, Outcome("TypeError")) EXCEPT
                                !.asset = asset]]
                       /\ UNCHANGED <<assets, tickets>>
                  ELSE /\ tickets' = after.tickets
                       /\ assets' = [assets EXCEPT ![asset.ID] =
                                        update_asset(after.asset)]
                       /\ run' = [run EXCEPT ![r] =
                             [Finish(r, checkout_response(after.asset, ticket,
                                                          owner))
                                EXCEPT !.asset = after.asset,
                                       !.calls = after.calls]]

-----------------------------------------------------------------------------
(* dropoff *)

\* dropoff up to its task: the body and the asset pattern
validate_dropoff(body) ==
    IF body.kind = "none" THEN Outcome("MissingBody")
    ELSE IF body.kind = "no_asset" THEN Outcome("MalformedBody")
    ELSE IF ~asset_pattern(body.asset)
    THEN [Outcome("InvalidAsset") EXCEPT !.tag = body.asset]
    ELSE NoOutcome

\* The handler starts: it validates, creates the task "Find Asset" and reads
\* the id of the available status
DropoffBegin(r) ==
    /\ Serving
    /\ run[r].hpc = "received"
    /\ run[r].op = "dropoff"
    /\ LET invalid == validate_dropoff(run[r].body)
       IN  run' = [run EXCEPT ![r] =
                IF invalid # NoOutcome THEN Finish(r, invalid)
                ELSE [@ EXCEPT
                        !.asset_task = [NoTask EXCEPT !.st = "search"],
                        !.available_id = get_id("In Stock - Available"),
                        !.hpc = "await_asset"]]
    /\ UNCHANGED <<assets, tickets>>

\* `await asset_task`, then the status guard
DropoffAwaitAsset(r) ==
    /\ Serving
    /\ run[r].hpc = "await_asset"
    /\ run[r].op = "dropoff"
    /\ run[r].asset_task.st \in {"done", "failed"}
    /\ LET asset == run[r].asset_task.asset
       IN  IF run[r].asset_task.st = "failed"
           THEN run' = [run EXCEPT ![r] =
                          Finish(r, Outcome(run[r].asset_task.exc))]
           ELSE \E same \in is_same(asset.StatusID, run[r].available_id) :
                  run' = [run EXCEPT ![r] =
                     IF same
                     THEN [Finish(r, [Outcome("AssetAlreadyCheckedIn") EXCEPT
                                         !.tag = asset.Tag])
                             EXCEPT !.asset = asset]
                     ELSE [@ EXCEPT !.asset = asset, !.hpc = "get_person"]]
    /\ UNCHANGED <<assets, tickets>>

\* tdx.get_person(uid): the persons with that UID
get_person(uid) == {p \in Persons : PyStr(p.UID) = uid}

\* The response of dropoff
dropoff_response(asset, person) ==
    [Outcome("OK") EXCEPT
        !.tag = asset.Tag, !.asset_id = asset.ID,
        !.uniqname = person.AlternateID, !.uid = asset.OwningCustomerID]

\* `await tdx.get_person(asset["OwningCustomerID"])`, then the call
\* asset_lib.check_in_asset(tdx, asset, comment=body["comment"])
DropoffGetPerson(r) ==
    /\ Serving
    /\ run[r].hpc = "get_person"
    /\ LET asset == run[r].asset
           found == get_person(asset.OwningCustomerID)
           after == check_in_asset(asset, NoTicket)
       IN  IF found = {}
           THEN /\ run' = [run EXCEPT ![r] =
                             Finish(r, Outcome("PersonDoesNotExist"))]
                /\ UNCHANGED <<assets, tickets>>
           ELSE \E person \in found :
                  IF ~BindsCall(check_in_asset_params, 2, 2, {"comment"})
                  THEN /\ run' = [run EXCEPT ![r] =
                             [Finish(r, Outcome("TypeError")) EXCEPT
                                !.person = person]]
                       /\ UNCHANGED <<assets, tickets>>
                  ELSE /\ tickets' = after.tickets
                       /\ assets' = [assets EXCEPT ![asset.ID] =
                                        update_asset(after.asset)]
                       /\ run' = [run EXCEPT ![r] =
                             [Finish(r, dropoff_response(after.asset, person))
                                EXCEPT !.person = person,
                                       !.asset = after.asset,
                                       !.calls = after.calls]]

-----------------------------------------------------------------------------
(* The server *)

Next ==
    \E r \in Reqs :
        \/ Receive(r)
        \/ CheckoutBegin(r)
        \/ DropoffBegin(r)
        \/ OwnerTask(r)
        \/ AssetTaskSearch(r)
        \/ AssetTaskGet(r)
        \/ CheckoutAwaitOwner(r)
        \/ CheckoutTicketAssets(r)
        \/ CheckoutLoanedAsset(r)
        \/ CheckoutAwaitAsset(r)
        \/ DropoffAwaitAsset(r)
        \/ DropoffGetPerson(r)
        \/ Respond(r)

Spec == Init /\ [][Next]_vars

-----------------------------------------------------------------------------
(* The server over an inventory with records that match more than once *)

\* Assets with one tag, and the request tickets of one person
DupAssetIDs == {"d5", "d6"}
DupTicketIDs == {"t2", "t3"}

\* As Init, with two more assets that share a tag and two request tickets
\* of uid3
InitDup ==
    /\ \E approval \in Approvals, attached \in {<<>>, <<"d3">>},
          status_name \in {"In Stock - Available", "On Loan"} :
          /\ tickets =
                [t \in TicketIDs \cup DupTicketIDs |->
                    IF t \in TicketIDs
                    THEN RequestTicket(t, approval, attached)
                    ELSE [RequestTicket(t, approval, <<>>) EXCEPT
                             !.RequestorUID = "uid3",
                             !.RequestorName = "Two"]]
          /\ assets =
                [d \in AssetIDs \cup DupAssetIDs |->
                    IF d = "d3" /\ attached # <<>>
                    THEN AssetRecord(d, "On Loan", "uid1")
                    ELSE AssetRecord(d, status_name,
                                     IF status_name = "On Loan"
                                     THEN "uid2" ELSE no_owner_uid)]
    /\ run = [r \in Reqs |-> IdleRun]

\* uniqnames of uid1, of uid3 and of uid4 and uid5
DupNames == { <<"a","b","c","d","e">>, <<"t","w","o">>, <<"d","u","p">> }

\* the tag of d1 and the tag of d5 and d6
DupTags == { TagOf("d1"), TagOf("d5") }

\* A request arrives and its handler is entered
ReceiveDup(r) ==
    /\ Serving
    /\ run[r].hpc = "idle"
    /\ \E op \in {"checkout", "dropoff"} :
         \E body \in
              IF op = "checkout"
              THEN {[NoBody EXCEPT !.kind = "full", !.uniqname = n,
                                    !.asset = t] :
                      n \in DupNames, t \in DupTags}
              ELSE {[NoBody EXCEPT !.kind = "no_uniqname", !.asset = t] :
                      t \in DupTags} :
            run' = [run EXCEPT ![r] =
                      [IdleRun EXCEPT !.op = op, !.body = body,
                                      !.hpc = "received"]]
    /\ UNCHANGED <<assets, tickets>>

NextDup ==
    \E r \in Reqs :
        \/ ReceiveDup(r)
        \/ CheckoutBegin(r)
        \/ DropoffBegin(r)
        \/ OwnerTask(r)
        \/ AssetTaskSearch(r)
        \/ AssetTaskGet(r)
        \/ CheckoutAwaitOwner(r)
        \/ CheckoutTicketAssets(r)
        \/ CheckoutLoanedAsset(r)
        \/ CheckoutAwaitAsset(r)
        \/ DropoffAwaitAsset(r)
        \/ DropoffGetPerson(r)
        \/ Respond(r)

SpecDup == InitDup /\ [][NextDup]_vars

-----------------------------------------------------------------------------
(* Checkouts of one person in flight at the same time *)

\* The requests in flight: one more than in Spec
PairReqs == 1..(NumReqs + 1)

\* A second asset with a Windows tag
PairAssetIDs == {"d4"}

\* The ticket of uid1 is approved for Windows and has no asset or asset d3
\* attached; the other assets are in stock
InitPair ==
    /\ \E attached \in {<<>>, <<"d3">>} :
          /\ tickets =
                [t \in TicketIDs |->
                    RequestTicket(t,
                        CHOOSE a \in Approvals :
                            a.Value = ApprovedWindowsValue,
                        attached)]
          /\ assets =
                [d \in AssetIDs \cup PairAssetIDs |->
                    IF d = "d3" /\ attached # <<>>
                    THEN AssetRecord(d, "On Loan", "uid1")
                    ELSE AssetRecord(d, "In Stock - Available",
                                     no_owner_uid)]
    /\ run = [r \in PairReqs |-> IdleRun]

\* the tags of d1 and of d4
PairTags == { TagOf("d1"), TagOf("d4") }

\* A checkout of uid1 arrives and the handler is entered
ReceivePair(r) ==
    /\ Serving
    /\ run[r].hpc = "idle"
    /\ \E t \in PairTags :
          run' = [run EXCEPT ![r] =
                    [IdleRun EXCEPT
                        !.op = "checkout",
                        !.body = [NoBody EXCEPT
                                     !.kind = "full",
                                     !.uniqname = <<"a","b","c","d","e">>,
                                     !.asset = t],
                        !.hpc = "received"]]
    /\ UNCHANGED <<assets, tickets>>

NextPair ==
    \E r \in PairReqs :
        \/ ReceivePair(r)
        \/ CheckoutBegin(r)
        \/ OwnerTask(r)
        \/ AssetTaskSearch(r)
        \/ AssetTaskGet(r)
        \/ CheckoutAwaitOwner(r)
        \/ CheckoutTicketAssets(r)
        \/ CheckoutLoanedAsset(r)
        \/ CheckoutAwaitAsset(r)
        \/ Respond(r)

SpecPair == InitPair /\ [][NextPair]_vars

-----------------------------------------------------------------------------
(* asset_lib called by a client of its own, on generated attribute lists *)

\* Names of attributes an asset may carry
AttrNames == {"Notes", "Last Inventoried", "Serial Number", "Model"}

\* Attribute lists of up to MaxAttrs entries, no name twice
AttrLists ==
    { s \in UNION { [1..n -> AttrNames] : n \in 0..MaxAttrs } :
        \A i, j \in DOMAIN s : i # j => s[i] # s[j] }

\* The value an attribute has before the library touches it
OldValue(name) ==
    IF name = "Last Inventoried" THEN Earlier ELSE <<"old", name>>

\* The one client of the library
LibReqs == {1}

\* The assets and the persons the client names
LibAssetIDs == {"d1", "d3"}
LibPersons == {p \in Persons : p.UID \in {"uid1", "uid2"}}

\* One open ticket without asset, the assets in stock with one of the
\* attribute lists
InitLib ==
    /\ tickets =
          [t \in TicketIDs |->
              RequestTicket(t,
                  CHOOSE a \in Approvals : a.Value = ApprovedMacValue,
                  <<>>)]
    /\ \E names \in AttrLists :
          assets =
             [d \in LibAssetIDs |->
                 [AssetRecord(d, "In Stock - Available", no_owner_uid) EXCEPT
                     !.Attributes =
                        [i \in DOMAIN names |->
                            Attribute(names[i], OldValue(names[i]))]]]
    /\ run = [r \in LibReqs |-> IdleRun]

\* The client fetches an asset and a ticket and calls check_out_asset
LibCheckOut(r) ==
    /\ Serving
    /\ \E d \in DOMAIN assets, t \in DOMAIN tickets, p \in LibPersons :
         LET after == check_out_asset(assets[d], tickets[t], PyStr(p.UID))
         IN  /\ Len(tickets[t].Assets) < MaxAttached
             /\ tickets' = after.tickets
             /\ assets' = [assets EXCEPT ![d] = update_asset(after.asset)]
             /\ run' = [run EXCEPT ![r] =
                          [IdleRun EXCEPT !.op = "check_out_asset",
                                          !.asset = after.asset,
                                          !.ticket = tickets[t],
                                          !.calls = after.calls]]

\* The client fetches an asset and calls check_in_asset, with a ticket or
\* without
LibCheckIn(r) ==
    /\ Serving
    /\ \E d \in DOMAIN assets,
          k \in {NoTicket} \cup {tickets[t] : t \in DOMAIN tickets} :
         LET after == check_in_asset(assets[d], k)
         IN  /\ k # NoTicket => Len(tickets[k.ID].Assets) < MaxAttached
             /\ tickets' = after.tickets
             /\ assets' = [assets EXCEPT ![d] = update_asset(after.asset)]
             /\ run' = [run EXCEPT ![r] =
                          [IdleRun EXCEPT !.op = "check_in_asset",
                                          !.asset = after.asset,
                                          !.ticket = k,
                                          !.calls = after.calls]]

NextLib == \E r \in LibReqs : LibCheckOut(r) \/ LibCheckIn(r)

SpecLib == InitLib /\ [][NextLib]_vars

-----------------------------------------------------------------------------
(* The server beside a client that checks assets in with the library *)

\* The client of the library, beside the requests of the server
ReturnClient == 0

\* The asset the client checks in
ReturnAssetIDs == {"d1"}

\* The ticket of uid1 is approved for Windows and has no asset; the assets
\* are on loan to uid2 or in stock
InitReturn ==
    /\ tickets =
          [t \in TicketIDs |->
              RequestTicket(t,
                  CHOOSE a \in Approvals : a.Value = ApprovedWindowsValue,
                  <<>>)]
    /\ \E status_name \in {"In Stock - Available", "On Loan"} :
          assets =
             [d \in ReturnAssetIDs |->
                 AssetRecord(d, status_name,
                             IF status_name = "On Loan" THEN "uid2"
                                                        ELSE no_owner_uid)]
    /\ run = [r \in Reqs \cup {ReturnClient} |-> IdleRun]

\* A checkout of uid1 or a return arrives, for the client's asset
ReceiveReturn(r) ==
    /\ Serving
    /\ run[r].hpc = "idle"
    /\ \E op \in {"checkout", "dropoff"}, d \in ReturnAssetIDs :
          run' = [run EXCEPT ![r] =
                    [IdleRun EXCEPT
                        !.op = op,
                        !.body = [NoBody EXCEPT
                                     !.kind = IF op = "checkout"
                                              THEN "full" ELSE "no_uniqname",
                                     !.uniqname =
                                        IF op = "checkout"
                                        THEN <<"a","b","c","d","e">> ELSE <<>>,
                                     !.asset = TagOf(d)],
                        !.hpc = "received"]]
    /\ UNCHANGED <<assets, tickets>>

NextReturn ==
    \/ \E r \in Reqs :
          \/ ReceiveReturn(r)
          \/ CheckoutBegin(r)
          \/ DropoffBegin(r)
          \/ OwnerTask(r)
          \/ AssetTaskSearch(r)
          \/ AssetTaskGet(r)
          \/ CheckoutAwaitOwner(r)
          \/ CheckoutTicketAssets(r)
          \/ CheckoutLoanedAsset(r)
          \/ CheckoutAwaitAsset(r)
          \/ DropoffAwaitAsset(r)
          \/ DropoffGetPerson(r)
          \/ Respond(r)
    \/ LibCheckIn(ReturnClient)

SpecReturn == InitReturn /\ [][NextReturn]_vars

-----------------------------------------------------------------------------
(* Checkouts of two persons for one asset in flight at the same time *)

\* The request tickets of uid1 and of uid2
RaceTicketIDs == {"t1", "t4"}

\* Both tickets are approved for Windows; uid1's has no asset, uid2's has
\* none or asset d3; the other assets are in stock
InitRace ==
    /\ \E attached \in {<<>>, <<"d3">>} :
          /\ tickets =
                [t \in RaceTicketIDs |->
                    LET approval == CHOOSE a \in Approvals :
                                       a.Value = ApprovedWindowsValue
                    IN  IF t \in TicketIDs
                        THEN RequestTicket(t, approval, <<>>)
                        ELSE [RequestTicket(t, approval, attached) EXCEPT
                                 !.RequestorUID = "uid2",
                                 !.RequestorName = "Xy Z"]]
          /\ assets =
                [d \in AssetIDs |->
                    IF d = "d3" /\ attached # <<>>
                    THEN AssetRecord(d, "On Loan", "uid2")
                    ELSE AssetRecord(d, "In Stock - Available",
                                     no_owner_uid)]
    /\ run = [r \in PairReqs |-> IdleRun]

\* uniqnames of uid1 and of uid2
RaceNames == { <<"a","b","c","d","e">>, <<"x","y","z">> }

\* A checkout of asset d1 arrives for one of the two persons
ReceiveRace(r) ==
    /\ Serving
    /\ run[r].hpc = "idle"
    /\ \E n \in RaceNames :
          run' = [run EXCEPT ![r] =
                    [IdleRun EXCEPT
                        !.op = "checkout",
                        !.body = [NoBody EXCEPT !.kind = "full",
                                                !.uniqname = n,
                                                !.asset = TagOf("d1")],
                        !.hpc = "received"]]
    /\ UNCHANGED <<assets, tickets>>

NextRace ==
    \E r \in PairReqs :
        \/ ReceiveRace(r)
        \/ CheckoutBegin(r)
        \/ OwnerTask(r)
        \/ AssetTaskSearch(r)
        \/ AssetTaskGet(r)
        \/ CheckoutAwaitOwner(r)
        \/ CheckoutTicketAssets(r)
        \/ CheckoutLoanedAsset(r)
        \/ CheckoutAwaitAsset(r)
        \/ Respond(r)

SpecRace == InitRace /\ [][NextRace]_vars

-----------------------------------------------------------------------------
(* The validator alone, on generated strings *)

\* n times the character c
RECURSIVE Rep(_, _)
Rep(c, n) == IF n = 0 THEN <<>> ELSE <<c>> \o Rep(c, n - 1)

\* Generated uniqnames: up to MaxNameLen letters, small or capital, after
\* nothing or a digit, before nothing, a digit, a blank or newlines
GenNames ==
    { pre \o Rep(c, n) \o suf :
        pre \in {<<>>, <<"1">>},
        c \in {"a", "Q"},
        n \in 0..MaxNameLen,
        suf \in {<<>>, <<"1">>, <<" ">>, <<Newline>>, <<Newline, Newline>>} }

\* Generated tags: a prefix, up to MaxDigits digits, and nothing, a letter
\* or a newline after them
GenTags ==
    { pre \o SubSeq(DigitSeq, 1, n) \o suf :
        pre \in { <<"T","R","L">>, <<"S","A","H">>, <<"S","A","H","M">>,
                  <<"s","a","h">>, <<"X","S","A","H">>, <<"S","A">>, <<>> },
        n \in 0..MaxDigits,
        suf \in {<<>>, <<"x">>, <<Newline>>} }

InitValidator ==
    /\ InitRemote(CHOOSE a \in Approvals : a.Value = ApprovedWindowsValue,
                  <<>>, "In Stock - Available")
    /\ \E op \in {"checkout", "dropoff"} :
         \E body \in
              IF op = "checkout"
              THEN {[NoBody EXCEPT !.kind = "full", !.uniqname = n,
                                    !.asset = t] :
                      n \in GenNames, t \in GenTags}
              ELSE {[NoBody EXCEPT !.kind = "no_uniqname", !.asset = t] :
                      t \in GenTags} :
            run = [r \in Reqs |->
                     IF r = 1
                     THEN [IdleRun EXCEPT !.op = op, !.body = body,
                                          !.hpc = "received"]
                     ELSE IdleRun]

NextValidator == \E r \in Reqs : CheckoutBegin(r) \/ DropoffBegin(r)

SpecValidator == InitValidator /\ [][NextValidator]_vars

-----------------------------------------------------------------------------
(* What the claims speak of *)

Approved == {ApprovedMacValue, ApprovedWindowsValue}

\* The tag carries the Mac prefix
MacTag(tag) == StartsWith(tag, <<"S","A","H","M">>)

\* The tag carries the Windows prefix: SAH and a digit
WindowsTag(tag) ==
    /\ StartsWith(tag, <<"S","A","H">>)
    /\ AllIn(tag, 4, 1, DigitChars)

\* The run r of checkout has resolved its ticket
TicketResolved(r) == run[r].op = "checkout" /\ run[r].ticket # NoTicket

\* The run r of checkout has awaited the asset and compared its status
StatusCompared(r) == run[r].op = "checkout" /\ run[r].asset # NoAsset

\* The five guards of checkout, on what the run r has read
AllGuardsPass(r) ==
    /\ TicketResolved(r)
    /\ run[r].ticket.Approval.Value \in Approved
    /\ run[r].ticket_assets = <<>>
    /\ run[r].asset_task.st = "done"
    /\ run[r].asset_task.asset.StatusID = get_id("In Stock - Available")
    /\ run[r].ticket.Approval.Value = ApprovedMacValue
          => MacTag(run[r].asset_task.asset.Tag)
    /\ run[r].ticket.Approval.Value = ApprovedWindowsValue
          => WindowsTag(run[r].asset_task.asset.Tag)

-----------------------------------------------------------------------------
(* C1 *)

\* C1: once checkout has resolved the ticket, a Denied approval value has
\* ended the run with LoanRequestDenied, a value that is neither Denied nor
\* approved for Mac or Windows has ended it with NoLoanRequest, and only an
\* approved value lets the run go on without either error.
C1_ApprovalGuardClassifies ==
    \A r \in Reqs :
        TicketResolved(r) =>
            LET value == run[r].ticket.Approval.Value
            IN  /\ value = DeniedValue
                    => run[r].hpc = "done"
                       /\ run[r].out.kind = "LoanRequestDenied"
                /\ value \notin Approved \cup {DeniedValue}
                    => run[r].hpc = "done"
                       /\ run[r].out.kind = "NoLoanRequest"
                /\ value \in Approved
                    => run[r].out.kind
                          \notin {"LoanRequestDenied", "NoLoanRequest"}

-----------------------------------------------------------------------------
(* C2 *)

\* C2: a run of checkout that has issued a mutating remote call (attach,
\* close, update) has passed all five guards; a run in which a guard fails
\* has issued none.
C2_NoMutationUnlessGuardsPass ==
    \A r \in Reqs :
        run[r].op = "checkout" /\ run[r].calls # <<>> => AllGuardsPass(r)

\* A run of checkout with a denied ticket has gone past every guard to the
\* call of check_out_asset, and has ended without a mutating call.
C2_Witness ==
    \E r \in Reqs :
        /\ TicketResolved(r)
        /\ run[r].ticket.Approval.Value = DeniedValue
        /\ run[r].hpc = "done"
        /\ run[r].out.kind = "TypeError"
        /\ ~AllGuardsPass(r)
        /\ run[r].calls = <<>>

-----------------------------------------------------------------------------
(* C3 *)

\* C3: a checkout that has compared the asset's status id with the available
\* id is rejected with AssetNotReadyToLoan when the two differ, whatever the
\* approval, and is not rejected with AssetNotReadyToLoan when they are equal.
C3_NotReadyIffNotAvailable ==
    \A r \in Reqs :
        StatusCompared(r) =>
            (run[r].out.kind = "AssetNotReadyToLoan"
                <=> run[r].asset.StatusID # get_id("In Stock - Available"))

-----------------------------------------------------------------------------
(* C4 *)

-----------------------------------------------------------------------------
(* C5 *)

\* The run r of checkout has ended past the approval, fulfillment and
\* availability guards
PastAvailability(r) ==
    /\ StatusCompared(r)
    /\ run[r].hpc = "done"
    /\ run[r].ticket.Approval.Value \in Approved
    /\ run[r].ticket_assets = <<>>
    /\ run[r].out.kind # "AssetNotReadyToLoan"

-----------------------------------------------------------------------------
(* C6 *)

\* C6: a checkout with a valid uniqname and a Windows tag, for a person whose
\* one request ticket is approved for Windows and has no asset attached, and
\* an asset in the available status, ends with the success response, whose
\* ticket id is the resolved ticket's and whose tag is the requested tag.
C6_WindowsCheckoutSucceeds ==
    \A r \in Reqs :
        /\ TicketResolved(r)
        /\ run[r].hpc = "done"
        /\ WindowsTag(run[r].body.asset)
        /\ Cardinality(search_tickets(run[r].owner)) = 1
        /\ run[r].ticket.Approval.Value = ApprovedWindowsValue
        /\ run[r].ticket_assets = <<>>
        /\ run[r].asset_task.st = "done"
        /\ run[r].asset_task.asset.StatusID = get_id("In Stock - Available")
        => /\ run[r].out.kind = "OK"
           /\ run[r].out.ticket = run[r].ticket.ID
           /\ run[r].out.tag = run[r].body.asset

-----------------------------------------------------------------------------
(* C7 *)

\* C7: a check-in that has compared the status id of an asset that is in the
\* available status has ended with AssetAlreadyCheckedIn, and has issued no
\* mutating call.
C7_CheckInOfAvailableRejected ==
    \A r \in Reqs :
        /\ run[r].op = "dropoff"
        /\ run[r].asset # NoAsset
        /\ run[r].asset_task.asset.StatusID = get_id("In Stock - Available")
        => /\ run[r].hpc = "done"
           /\ run[r].out.kind = "AssetAlreadyCheckedIn"
           /\ run[r].calls = <<>>

-----------------------------------------------------------------------------
(* C8 *)

\* The run r of checkout has ended past all five guards, at the Mutator
ReachedMutator(r) ==
    /\ AllGuardsPass(r)
    /\ run[r].hpc = "done"
    /\ run[r].out.kind \notin {"AssetNotReadyToLoan", "WrongAssetType"}

\* C8: a checkout that has passed all its guards has succeeded, and the
\* remote state shows the asset attached to the resolved ticket, the ticket
\* closed, and the asset offsite, on loan and owned by the UID of the
\* resolved person.
C8_CheckoutCommitsLoan ==
    \A r \in Reqs :
        ReachedMutator(r) =>
            LET id == run[r].asset_task.asset.ID
                ticket == tickets[run[r].ticket.ID]
            IN  /\ run[r].out.kind = "OK"
                /\ \E i \in DOMAIN ticket.Assets : ticket.Assets[i] = id
                /\ ticket.Status = "Closed"
                /\ assets[id].LocationID = get_id("Offsite")
                /\ assets[id].StatusID = get_id("On Loan")
                /\ assets[id].OwningCustomerID = PyStr(run[r].owner.UID)

-----------------------------------------------------------------------------
(* C9 *)

\* C9: a check-in that has passed its guard and fetched the asset's owner
\* has succeeded, and the previous owner of its response has the id that
\* owned the asset when it was fetched, and the uniqname of that person.
C9_PreviousOwnerReported ==
    \A r \in Reqs :
        /\ run[r].op = "dropoff"
        /\ run[r].hpc = "done"
        /\ run[r].person # NoPerson
        => /\ run[r].out.kind = "OK"
           /\ run[r].out.uid = run[r].asset_task.asset.OwningCustomerID
           /\ \E p \in Persons :
                 /\ PyStr(p.UID) = run[r].asset_task.asset.OwningCustomerID
                 /\ run[r].out.uniqname = p.AlternateID

-----------------------------------------------------------------------------
(* C10 *)

\* 3 to 8 letters a-z and nothing else
IsHandle(s) == Len(s) \in 3..8 /\ \A i \in DOMAIN s : s[i] \in LowerChars

\* TRL or SAH and exactly 5 digits, or SAHM and exactly 4 digits, and
\* nothing else
IsTag(s) ==
    \/ /\ Len(s) = 8
       /\ StartsWith(s, <<"T","R","L">>) \/ StartsWith(s, <<"S","A","H">>)
       /\ AllIn(s, 4, 5, DigitChars)
    \/ /\ Len(s) = 8
       /\ StartsWith(s, <<"S","A","H","M">>)
       /\ AllIn(s, 5, 4, DigitChars)

\* C10: the validator accepts a request exactly when the lowercased uniqname
\* is 3 to 8 letters a-z and the tag is TRL or SAH with exactly 5 digits or
\* SAHM with exactly 4 digits, nothing before or after; another uniqname is
\* rejected with InvalidUniqname, another tag with InvalidAsset.
C10_ValidatorAcceptsExactly ==
    \A r \in Reqs :
        run[r].hpc \notin {"idle", "received"} =>
            LET handle == run[r].op = "dropoff"
                          \/ IsHandle(Lower(run[r].body.uniqname))
                tag == IsTag(run[r].body.asset)
                kind == run[r].out.kind
            IN  /\ run[r].body.kind = "full" \/ run[r].op = "dropoff"
                /\ run[r].body.kind \notin {"none", "no_asset"}
                => /\ kind \notin {"InvalidUniqname", "InvalidAsset"}
                        <=> handle /\ tag
                   /\ ~handle => kind = "InvalidUniqname"
                   /\ handle /\ ~tag => kind = "InvalidAsset"

-----------------------------------------------------------------------------
(* C11 *)

\* The run r has issued no remote call: it has created neither lookup task,
\* has read no person, ticket or asset, and has sent no mutation
NoRemoteCall(r) ==
    /\ run[r].owner_task = NoTask
    /\ run[r].asset_task = NoTask
    /\ run[r].owner = NoPerson
    /\ run[r].ticket = NoTicket
    /\ run[r].ticket_assets = <<>>
    /\ run[r].asset = NoAsset
    /\ run[r].person = NoPerson
    /\ run[r].calls = <<>>

\* C11: a run of checkout or of dropoff whose outcome is InvalidUniqname or
\* InvalidAsset has issued no remote call: no person, asset or ticket
\* lookup and no mutation.
C11_InvalidBeforeRemoteCall ==
    \A r \in DOMAIN run :
        run[r].out.kind \in {"InvalidUniqname", "InvalidAsset"}
            => NoRemoteCall(r)

\* A checkout of the uniqname "ab" has ended with InvalidUniqname.
C11_Witness ==
    \E r \in DOMAIN run :
        /\ run[r].op = "checkout"
        /\ run[r].body.uniqname = <<"a","b">>
        /\ run[r].hpc = "done"
        /\ run[r].out.kind = "InvalidUniqname"
        /\ NoRemoteCall(r)

-----------------------------------------------------------------------------
(* C12 *)

\* The run r has awaited the task "Find Asset", which had found no asset
AssetLookupEmpty(r) ==
    /\ run[r].hpc = "done"
    /\ run[r].asset_task.st = "failed"
    /\ run[r].asset_task.exc = "ObjectNotFound"
    /\ \/ run[r].op = "dropoff"
       \/ TicketResolved(r) /\ run[r].ticket_assets = <<>>

\* C12: a run of checkout or of dropoff that has awaited a lookup of the
\* asset that found no asset has ended with AssetNotFound, carrying the tag
\* of the request, and has issued no mutating call.
C12_AssetNotFound ==
    \A r \in DOMAIN run :
        AssetLookupEmpty(r) =>
            /\ run[r].out.kind = "AssetNotFound"
            /\ run[r].out.tag = run[r].body.asset
            /\ run[r].calls = <<>>

-----------------------------------------------------------------------------
(* C13 *)

\* C13: a run of checkout that has resolved its person, when the search for
\* that person's request tickets finds none, has ended with NoLoanRequest;
\* the server goes on serving and the run has issued no mutating call.
C13_NoTicketIsNoLoanRequest ==
    \A r \in DOMAIN run :
        /\ run[r].op = "checkout"
        /\ run[r].owner # NoPerson
        /\ search_tickets(run[r].owner) = {}
        => /\ run[r].hpc = "done"
           /\ run[r].out.kind = "NoLoanRequest"
           /\ Serving
           /\ run[r].calls = <<>>

-----------------------------------------------------------------------------
(* C14 *)

\* C14: a lookup that returned more than one match is not resolved to one of
\* the matches.  When more than one person has the uniqname, the task "Find
\* Owner" fails with MultipleMatches; when more than one asset has the tag,
\* the task "Find Asset" fails with MultipleMatches and fetches no asset;
\* when the person has more than one request ticket, the run ends with
\* MultipleMatches and has taken no ticket.
C14_AmbiguousMatchReported ==
    \A r \in DOMAIN run :
        /\ /\ run[r].op = "checkout"
           /\ Cardinality({p \in Persons :
                              p.AlternateID = run[r].uniqname}) > 1
           /\ run[r].owner_task.st \notin {"none", "running"}
           => /\ run[r].owner_task.st = "failed"
              /\ run[r].owner_task.exc = "MultipleMatches"
              /\ run[r].hpc = "done" => run[r].out.kind = "MultipleMatches"
        /\ /\ Cardinality(search_assets(run[r].body.asset)) > 1
           /\ run[r].asset_task.st \notin {"none", "search"}
           => /\ run[r].asset_task.st = "failed"
              /\ run[r].asset_task.exc = "MultipleMatches"
        /\ /\ run[r].owner # NoPerson
           /\ Cardinality(search_tickets(run[r].owner)) > 1
           => /\ run[r].hpc = "done"
              /\ run[r].out.kind = "MultipleMatches"
              /\ run[r].ticket = NoTicket

-----------------------------------------------------------------------------
(* C15 *)

\* The run r of dropoff has ended past its guard, with the owner fetched
ReachedCheckIn(r) ==
    /\ run[r].op = "dropoff"
    /\ run[r].hpc = "done"
    /\ run[r].person # NoPerson

\* C15: a check-in that has passed its guard has succeeded and has left the
\* asset in the return location, in stock / reserved and without owner; when
\* the request names a ticket, the asset was attached to that ticket and the
\* ticket closed before the asset was updated; when it names none, the
\* update of the asset is the only mutating call.
C15_CheckInTicketOptional ==
    \A r \in DOMAIN run :
        ReachedCheckIn(r) =>
            LET id == run[r].asset_task.asset.ID
                k == run[r].body.ticket
            IN  /\ run[r].out.kind = "OK"
                /\ assets[id].LocationID = get_id("MICHIGAN UNION")
                /\ assets[id].StatusID = get_id("In Stock - Reserved")
                /\ assets[id].OwningCustomerID = PyStr(no_owner_uid)
                /\ k = "-" => run[r].calls = << Call("update_asset", "-", id) >>
                /\ k # "-" =>
                     run[r].calls =
                        << Call("attach_asset_to_ticket", k, id),
                           Call("update_ticket_status", k, "-"),
                           Call("update_asset", "-", id) >>

-----------------------------------------------------------------------------
(* C16 *)

\* C16: with checkouts of one person in flight at the same time, each ticket
\* has at most one asset attached.
C16_AtMostOneAttached ==
    \A t \in DOMAIN tickets : Len(tickets[t].Assets) <= 1

\* Two checkouts of the same person for two assets have both read the ticket
\* without an attached asset and have both gone past every guard to the call
\* of check_out_asset.
C16_Witness ==
    \E r1, r2 \in DOMAIN run :
        /\ r1 # r2
        /\ ReachedMutator(r1) /\ ReachedMutator(r2)
        /\ run[r1].owner = run[r2].owner
        /\ run[r1].ticket.ID = run[r2].ticket.ID
        /\ run[r1].asset.ID # run[r2].asset.ID
        /\ Len(tickets[run[r1].ticket.ID].Assets) <= 1

-----------------------------------------------------------------------------
(* C17 *)

\* No two entries of the asset's attribute list have one name
NoDuplicateAttributes(asset) ==
    \A i, j \in DOMAIN asset.Attributes :
        i # j => /\ asset.Attributes[i].Name # asset.Attributes[j].Name
                 /\ asset.Attributes[i].ID # asset.Attributes[j].ID

\* Every entry the asset had is still in its place under its name, and at
\* most the entry "Notes" and the entry "Last Inventoried" come after them
UpdatedInPlace(old, new) ==
    /\ Len(new.Attributes) >= Len(old.Attributes)
    /\ \A i \in DOMAIN old.Attributes :
          new.Attributes[i].Name = old.Attributes[i].Name
    /\ \A i \in (Len(old.Attributes) + 1)..Len(new.Attributes) :
          /\ new.Attributes[i].Name \in {"Notes", "Last Inventoried"}
          /\ \A j \in DOMAIN old.Attributes :
                old.Attributes[j].Name # new.Attributes[i].Name

\* C17: after any sequence of check_out_asset and check_in_asset on an asset
\* record, no two entries of its attribute list have one name; each update
\* leaves the entries there were in place and appends an entry only for a
\* name that was missing.
C17_AttributesUnique ==
    /\ [](\A d \in DOMAIN assets : NoDuplicateAttributes(assets[d]))
    /\ [][\A d \in DOMAIN assets : UpdatedInPlace(assets[d], assets'[d])]_vars

\* An asset was checked out and then checked in, and has the one entry
\* "Notes", written by the check-in, after the entry "Last Inventoried".
C17_Witness ==
    \E d \in DOMAIN assets :
        /\ \E t \in DOMAIN tickets :
              \E i \in DOMAIN tickets[t].Assets : tickets[t].Assets[i] = d
        /\ assets[d].StatusID = get_id("In Stock - Reserved")
        /\ assets[d].Attributes =
              << Attribute("Last Inventoried", Today),
                 Attribute("Notes", <<"Checked in by Tech Consulting">>) >>

-----------------------------------------------------------------------------
(* C18 *)

\* C18: the asset record that check_out_asset sends to the remote service
\* has an entry "Last Inventoried" whose value is the date of the day,
\* whether or not the asset had the entry.
C18_CheckoutRefreshesInventoryDate ==
    \A r \in DOMAIN run :
        run[r].op = "check_out_asset" =>
            \E i \in DOMAIN run[r].asset.Attributes :
                /\ run[r].asset.Attributes[i].ID = get_id("Last Inventoried")
                /\ run[r].asset.Attributes[i].Value = Today

-----------------------------------------------------------------------------
(* C19 *)

\* The remote calls that change a ticket
TicketCalls == {"attach_asset_to_ticket", "update_ticket_status"}

\* C19: among the mutating calls of one check_out_asset or check_in_asset,
\* the update of the asset is the last: every attach and every close of a
\* ticket comes before it, the attach before the close, and check_out_asset
\* issues all three.
C19_TicketBeforeAsset ==
    \A r \in DOMAIN run :
        LET c == run[r].calls
        IN  /\ \A i \in DOMAIN c :
                  /\ c[i].call = "update_asset" => i = Len(c)
                  /\ c[i].call = "attach_asset_to_ticket" =>
                        /\ i < Len(c)
                        /\ c[i + 1].call = "update_ticket_status"
                  /\ c[i].call = "update_ticket_status" =>
                        /\ i < Len(c)
                        /\ c[i + 1].call = "update_asset"
            /\ run[r].op \in {"check_out_asset", "check_in_asset"} =>
                  /\ c # <<>>
                  /\ c[Len(c)].call = "update_asset"
            /\ run[r].op = "check_out_asset" \/ run[r].ticket # NoTicket =>
                  \A i \in DOMAIN c :
                      c[i].call \in TicketCalls =>
                          tickets[c[i].ticket].Status = "Closed"

\* check_in_asset was called with a ticket: the asset was attached, the
\* ticket closed, and then the asset updated.
C19_Witness ==
    \E r \in DOMAIN run :
        /\ run[r].op = "check_in_asset"
        /\ run[r].ticket # NoTicket
        /\ Len(run[r].calls) = 3
        /\ run[r].calls[1].call = "attach_asset_to_ticket"
        /\ run[r].calls[3].call = "update_asset"
        /\ assets[run[r].asset.ID].StatusID = get_id("In Stock - Reserved")

-----------------------------------------------------------------------------
(* C20 *)

\* C20: in a run of checkout the lookup of the person and the lookup of the
\* asset are issued together: one is issued exactly when the other is, and
\* both are when the run awaits the first of them.
C20_LookupsIssuedTogether ==
    \A r \in DOMAIN run :
        run[r].op = "checkout" =>
            /\ run[r].owner_task.st = "none" <=> run[r].asset_task.st = "none"
            /\ run[r].hpc = "await_owner" =>
                  /\ run[r].owner_task.st # "none"
                  /\ run[r].asset_task.st # "none"

\* The lookup of the asset has completed while the lookup of the person,
\* which the run awaits first, is still running.
C20_Witness ==
    \E r \in DOMAIN run :
        /\ run[r].op = "checkout"
        /\ run[r].hpc = "await_owner"
        /\ run[r].owner_task.st = "running"
        /\ run[r].asset_task.st = "done"

-----------------------------------------------------------------------------
(* C21 *)

-----------------------------------------------------------------------------
(* C22 *)

\* The asset record is as check_in_asset left it
CheckedIn(asset) ==
    \E i \in DOMAIN asset.Attributes :
        /\ asset.Attributes[i].Name = "Notes"
        /\ asset.Attributes[i].Value = <<"Checked in by Tech Consulting">>

-----------------------------------------------------------------------------
(* C23 *)

\* The tickets to which the asset d is attached
AttachedTo(d) ==
    {t \in DOMAIN tickets :
        \E i \in DOMAIN tickets[t].Assets : tickets[t].Assets[i] = d}

\* C23: with checkouts of two persons for one asset in flight at the same
\* time, the asset is attached to at most one ticket, at most one closed
\* ticket has it, and at most one of the runs has succeeded with it.
C23_OneCheckoutPerAsset ==
    \A d \in DOMAIN assets :
        /\ Cardinality(AttachedTo(d)) <= 1
        /\ Cardinality({t \in AttachedTo(d) :
                           tickets[t].Status = "Closed"}) <= 1
        /\ Cardinality({r \in DOMAIN run :
                           /\ run[r].op = "checkout"
                           /\ run[r].out.kind = "OK"
                           /\ run[r].out.asset_id = d}) <= 1

\* Checkouts of two persons for one asset, each with an approved ticket
\* without asset, have both found the asset available and have both gone
\* past every guard to the call of check_out_asset.
C23_Witness ==
    \E r1, r2 \in DOMAIN run :
        /\ r1 # r2
        /\ ReachedMutator(r1) /\ ReachedMutator(r2)
        /\ run[r1].owner # run[r2].owner
        /\ run[r1].ticket.ID # run[r2].ticket.ID
        /\ run[r1].asset.ID = run[r2].asset.ID
        /\ Cardinality(AttachedTo(run[r1].asset.ID)) <= 1

====
